---- MODULE Spec2Model ----
(***************************************************************************)
(* A model of dataset-boundary-fixer: duplicate_finder.py (detection of    *)
(* duplicate hex ids in national_dataset and the fetch of their rows) and  *)
(* duplicate_fixer.py (reduction of each group of duplicate rows to one    *)
(* row).  Text (hex ids, the csv file, the SQL IN-list) is a sequence of   *)
(* one-character strings, so that formatting and parsing are computed.     *)
(***************************************************************************)
EXTENDS Integers, Sequences, FiniteSets, TLC

VARIABLES
    pc,                 \* position of the running function or program
    ret,                \* position the running function returns to
    error,              \* the exception that ended the run, "" when none
    \* ---- duplicate_finder.py
    table,              \* the rows of national_dataset, in storage order
    read_cached,        \* args.read_cached_duplicates
    steps,              \* the stages of main passed so far (its log lines)
    hex_id_count,       \* get_hex_ids: the dict id -> count
    count,              \* get_hex_ids: rows processed so far
    duplicates,         \* find_duplicates' result / main's duplicates
    items,              \* the pairs handed to write_pairs_csv
    file,               \* the text of duplicate_hex_ids.csv
    pairs,              \* read_pairs_csv's result
    hex_ids,            \* get_rows_by_hex_id: the requested ids
    batch_size,         \* ROWS_BATCH_SIZE
    batch_no,           \* get_rows_by_hex_id: batches executed so far
    queries,            \* the IN-lists of the queries executed, with their batches
    colnames,           \* get_rows_by_hex_id: <<>> is None, <<cols>> a list
    rows,               \* get_rows_by_hex_id: the rows fetched so far
    \* ---- duplicate_fixer.py
    group,              \* deduplicate's argument: the rows of one hex id
    idx,                \* deduplicate: loop index (0-based, as in the code)
    largest_area_row,   \* deduplicate: <<>> before it is set, else <<row>>
    largest_area,       \* deduplicate
    result              \* deduplicate's return value: <<>> or <<row>>

finderVars == <<table, read_cached, steps, hex_id_count, count, duplicates,
                items, file, pairs, hex_ids, batch_size, batch_no, queries,
                colnames, rows>>
fixerVars == <<group, idx, largest_area_row, largest_area, result>>
vars == <<pc, ret, error, finderVars, fixerVars>>

----------------------------------------------------------------------------
(* Bounds of the model. *)

MaxGroup == 3
MaxArea == 2
MaxScan == 6
MaxTokenLen == 2
MaxItems == 2
MaxTable == 3
MaxIds == 3
MaxBatch == 2
MaxMainTable == 2
MaxCached == 2

----------------------------------------------------------------------------
(* Generic helpers. *)

\* All sequences over S of length lo..hi.
SeqsOf(S, lo, hi) == UNION {[1..n -> S] : n \in lo..hi}

Range(s) == {s[i] : i \in 1..Len(s)}

----------------------------------------------------------------------------
(* duplicate_fixer.py                                                      *)

\* The values the evi attribute of a row read from duplicates.gpkg takes: a
\* null is None in an object column and NaN in a float column.
EviValues == {"None", "NaN", "0.0", "0.5"}

\* Python's truth value of other.evi: None and 0.0 are false, every other
\* float is true, NaN included.
Truthy(e) == e \notin {"None", "0.0"}

\* `not other.evi`, the test that skips a member.
SkipsMember(e) == ~Truthy(e)

FixerHexIds == {"C", "D"}

\* A stored geometry as the code uses it: its area.
StoredGeometry(a) == [shape |-> "stored", area |-> a]

\* cell_to_shapely(cell): the boundary polygon of the cell, in lon/lat order.
cell_to_shapely(cell) == [shape |-> "cell_wgs84", cell |-> cell]

\* transform(project, g): the geometry in the British National Grid.
transform(g) == [g EXCEPT !.shape = "cell_bng"]

\* The rows of one group: fid is the row's index label.
GroupOf(h, ev, ar) ==
    [i \in DOMAIN ev |-> [fid |-> i, hex_id |-> h, evi |-> ev[i],
                          geometry |-> StoredGeometry(ar[i])]]

\* rows.iloc[i], i counted from 0.
iloc(df, i) == df[i + 1]

\* The non-geometry attributes of a row.
Attributes(row) == [fid |-> row.fid, hex_id |-> row.hex_id, evi |-> row.evi]

IsEmptyFrame(df) == Len(df) = 0

\* `len(rows) == 1`, the pass-through test.
IsSingleton(df) == Len(df) = 1

ReplacesOnTie(other_area, best_area) == other_area >= best_area

\* `other_area > largest_area`, the test that replaces the candidate.
ReplacesCandidate(other_area, best_area) == other_area > best_area

\* The values of the other modules' variables while the fixer runs.
FinderIdle ==
    /\ table = <<>> /\ read_cached = FALSE /\ steps = <<>>
    /\ hex_id_count = [keys |-> <<>>, val |-> <<>>] /\ count = 0
    /\ duplicates = <<>> /\ items = <<>> /\ file = <<>> /\ pairs = <<>>
    /\ hex_ids = <<>> /\ batch_size = 1 /\ batch_no = 0 /\ queries = <<>>
    /\ colnames = <<>> /\ rows = <<>>

FixerIdle ==
    /\ group = <<>> /\ idx = 0 /\ largest_area_row = <<>>
    /\ largest_area = 0 /\ result = <<>>

\* The groups gdf.groupby('hex_id') hands to deduplicate: one hex id and one
\* to MaxGroup rows.
InitFixer ==
    /\ pc = "deduplicate" /\ ret = "exit" /\ error = ""
    /\ FinderIdle
    /\ \E n \in 1..MaxGroup :
          \E h \in FixerHexIds, ev \in [1..n -> EviValues],
             ar \in [1..n -> 0..MaxArea] :
              group = GroupOf(h, ev, ar)
    /\ idx = 0 /\ largest_area_row = <<>> /\ largest_area = 0 /\ result = <<>>

\* deduplicate, lines 69-78: the pass-through of a single row, else the first
\* row becomes the candidate.
DeduplicateEnter ==
    /\ pc = "deduplicate"
    /\ IF IsSingleton(group)
         THEN /\ result' = <<iloc(group, 0)>>
              /\ pc' = ret
              /\ UNCHANGED <<idx, largest_area_row, largest_area>>
         ELSE /\ largest_area_row' = <<iloc(group, 0)>>
              /\ largest_area' = iloc(group, 0).geometry.area
              /\ idx' = 0
              /\ pc' = "deduplicate_loop"
              /\ UNCHANGED result
    /\ UNCHANGED <<ret, error, finderVars, group>>

\* deduplicate, lines 80-90: one iteration of the loop over range(0, len(rows)).
DeduplicateLoop ==
    /\ pc = "deduplicate_loop"
    /\ idx < Len(group)
    /\ LET other == iloc(group, idx)
           other_area == other.geometry.area
       IN IF SkipsMember(other.evi)
            THEN UNCHANGED <<largest_area_row, largest_area>>
            ELSE IF ReplacesCandidate(other_area, largest_area)
                   THEN /\ largest_area_row' = <<other>>
                        /\ largest_area' = other_area
                   ELSE UNCHANGED <<largest_area_row, largest_area>>
    /\ idx' = idx + 1
    /\ UNCHANGED <<pc, ret, error, finderVars, group, result>>

\* deduplicate, lines 74 and 92-96: the copy of the candidate with the
\* reprojected cell polygon as its geometry.
DeduplicateReturn ==
    /\ pc = "deduplicate_loop"
    /\ idx = Len(group)
    /\ LET hex_id == iloc(group, 0).hex_id
           hex_geom == transform(cell_to_shapely(hex_id))
       IN result' = <<[largest_area_row[1] EXCEPT !.geometry = hex_geom]>>
    /\ pc' = ret
    /\ UNCHANGED <<ret, error, finderVars, group, idx, largest_area_row,
                   largest_area>>

NextFixer == DeduplicateEnter \/ DeduplicateLoop \/ DeduplicateReturn

SpecFixer == InitFixer /\ [][NextFixer]_vars

----------------------------------------------------------------------------
(* Claims about deduplicate. *)

DeduplicateDone == pc = "exit" /\ result # <<>>

\* A null evi: None, or the NaN a float column holds for a missing value.
IsNullEvi(e) == e \in {"None", "NaN"}

AreaOf(row) == row.geometry.area

\* The members the claims consider: the first, and those with a non-null evi.
Candidates(g) == {1} \cup {i \in 1..Len(g) : ~IsNullEvi(g[i].evi)}

\* The earliest member of S whose area is the largest in S.
EarliestLargest(g, S) ==
    CHOOSE i \in S :
        /\ \A j \in S : AreaOf(g[j]) <= AreaOf(g[i])
        /\ \A j \in S : AreaOf(g[j]) = AreaOf(g[i]) => i <= j

NonNullMembers(g) == {i \in 1..Len(g) : ~IsNullEvi(g[i].evi)}

\* C1: for a group of two or more rows, the row whose attributes deduplicate
\* copies is the earliest one of largest area among the first row and the
\* rows with a non-null evi, whatever the number a non-null evi holds.
C1_EarliestLargestCandidate ==
    (DeduplicateDone /\ Len(group) >= 2) =>
        Attributes(result[1]) =
            Attributes(group[EarliestLargest(group, Candidates(group))])

C3_SingletonGetsCellGeometry ==
    (DeduplicateDone /\ Len(group) = 1) =>
        /\ Attributes(result[1]) = Attributes(group[1])
        /\ result[1].geometry = transform(cell_to_shapely(group[1].hex_id))

\* C3 amended: for a group of one row, the output is that row unchanged, its
\* stored geometry included.
C3_SingletonPassesThrough ==
    (DeduplicateDone /\ Len(group) = 1) => result[1] = group[1]

\* C3 witness: a single row came back with its stored geometry.
C3_Witness ==
    /\ DeduplicateDone /\ Len(group) = 1
    /\ result[1].geometry = StoredGeometry(MaxArea)
    /\ result[1].fid = 1

----------------------------------------------------------------------------
(* duplicate_finder.py: get_hex_ids and find_duplicates                    *)

\* A Python dict: its keys in insertion order and the value of each key.
EmptyDict == [keys |-> <<>>, val |-> <<>>]

\* d.get(k, default)
DictGet(d, k, default) == IF k \in DOMAIN d.val THEN d.val[k] ELSE default

\* d[k] = v: a new key goes last, a known key keeps its place.
DictSet(d, k, v) ==
    [keys |-> IF k \in DOMAIN d.val THEN d.keys ELSE Append(d.keys, k),
     val  |-> [x \in DOMAIN d.val \cup {k} |-> IF x = k THEN v ELSE d.val[x]]]

\* d.items(), in insertion order.
DictItems(d) == [i \in 1..Len(d.keys) |-> <<d.keys[i], d.val[d.keys[i]]>>]

\* One national_dataset row; rid stands for the row's place in storage.
TableRow(i, h, g) == [rid |-> i, hex_id |-> h, geom |-> g]

\* The hex ids of the scanned datasets.
ScanIds == {<<"a">>, <<"b">>, <<"c">>}

CountFromOne(d, hex_id) == DictSet(d, hex_id, DictGet(d, hex_id, 1) + 1)

\* Line 44: hex_id_count[hex_id] = hex_id_count.get(hex_id, 0) + 1
CountOccurrence(d, hex_id) == DictSet(d, hex_id, DictGet(d, hex_id, 0) + 1)

IsPositiveCount(c) == c > 0

\* Line 61: `count > 1`
IsDuplicateCount(c) == c > 1

\* find_duplicates: the (hex_id, count) items whose count passes the test, in
\* the order of hex_id_count.items().
find_duplicates(d) ==
    SelectSeq(DictItems(d), LAMBDA item : IsDuplicateCount(item[2]))

\* get_hex_ids, lines 33-41: the empty dict and the query over the table.
GetHexIdsEnter ==
    /\ pc = "get_hex_ids"
    /\ hex_id_count' = EmptyDict
    /\ count' = 0
    /\ pc' = "get_hex_ids_loop"
    /\ UNCHANGED <<ret, error, table, read_cached, steps, duplicates, items,
                   file, pairs, hex_ids, batch_size, batch_no, queries,
                   colnames, rows, fixerVars>>

\* get_hex_ids, lines 42-46: one record of the cursor.
GetHexIdsLoop ==
    /\ pc = "get_hex_ids_loop"
    /\ count < Len(table)
    /\ LET record == table[count + 1]
           hex_id == record.hex_id
       IN hex_id_count' = CountOccurrence(hex_id_count, hex_id)
    /\ count' = count + 1
    /\ UNCHANGED <<pc, ret, error, table, read_cached, steps, duplicates, items,
                   file, pairs, hex_ids, batch_size, batch_no, queries,
                   colnames, rows, fixerVars>>

\* get_hex_ids, line 50: the cursor is exhausted.
GetHexIdsReturn ==
    /\ pc = "get_hex_ids_loop"
    /\ count = Len(table)
    /\ pc' = ret
    /\ UNCHANGED <<ret, error, finderVars, fixerVars>>

\* find_duplicates(hex_id_count), as main calls it on get_hex_ids' result
\* (line 153).
FindDuplicatesCall ==
    /\ pc = "find_duplicates"
    /\ duplicates' = find_duplicates(hex_id_count)
    /\ pc' = "exit"
    /\ UNCHANGED <<ret, error, table, read_cached, steps, hex_id_count, count,
                   items, file, pairs, hex_ids, batch_size, batch_no, queries,
                   colnames, rows, fixerVars>>

\* The datasets scanned: up to MaxScan rows.
ScanTables ==
    UNION {{[i \in 1..n |-> TableRow(i, h[i], "wkb")] : h \in [1..n -> ScanIds]} :
            n \in 0..MaxScan}

InitDetect ==
    /\ pc = "get_hex_ids" /\ ret = "find_duplicates" /\ error = ""
    /\ table \in ScanTables
    /\ read_cached = FALSE /\ steps = <<>>
    /\ hex_id_count = EmptyDict /\ count = 0
    /\ duplicates = <<>> /\ items = <<>> /\ file = <<>> /\ pairs = <<>>
    /\ hex_ids = <<>> /\ batch_size = 1 /\ batch_no = 0 /\ queries = <<>>
    /\ colnames = <<>> /\ rows = <<>>
    /\ FixerIdle

NextDetect ==
    GetHexIdsEnter \/ GetHexIdsLoop \/ GetHexIdsReturn \/ FindDuplicatesCall

SpecDetect == InitDetect /\ [][NextDetect]_vars

----------------------------------------------------------------------------
(* Claims about get_hex_ids and find_duplicates. *)

RECURSIVE SumCounts(_, _)
\* The sum of the counts of the first n keys of d.
SumCounts(d, n) ==
    IF n = 0 THEN 0 ELSE d.val[d.keys[n]] + SumCounts(d, n - 1)

\* How often id stands among the first n rows of the table.
Occurrences(id, n) == Cardinality({i \in 1..n : table[i].hex_id = id})

\* The place of id's first row in the table.
FirstSeen(id) == CHOOSE i \in 1..Len(table) :
    /\ table[i].hex_id = id
    /\ \A j \in 1..(i - 1) : table[j].hex_id # id

Scanning == pc \in {"get_hex_ids_loop", "find_duplicates", "exit"}

\* C4: at every point of the scan the counts of the mapping add up to the
\* number of rows processed, each id's count is the number of its rows among
\* those processed, and once the scan has ended that number is the row count
\* of the table.
C4_CountsMatchScannedPrefix ==
    Scanning =>
        /\ SumCounts(hex_id_count, Len(hex_id_count.keys)) = count
        /\ \A id \in ScanIds : DictGet(hex_id_count, id, 0) = Occurrences(id, count)
        /\ DOMAIN hex_id_count.val = {table[i].hex_id : i \in 1..count}
        /\ pc # "get_hex_ids_loop" => count = Len(table)

\* C4 witness: a finished scan of a table in which an id stands three times
\* and another once.
C4_Witness ==
    /\ pc = "find_duplicates" /\ count = Len(table) /\ count >= 4
    /\ DictGet(hex_id_count, <<"a">>, 0) = 3
    /\ DictGet(hex_id_count, <<"b">>, 0) = 1

----------------------------------------------------------------------------
(* duplicate_finder.py: write_pairs_csv and read_pairs_csv                 *)

Digits == <<"0", "1", "2", "3", "4", "5", "6", "7", "8", "9">>

IsDigit(c) == \E d \in 1..10 : Digits[d] = c

DigitValue(c) == (CHOOSE d \in 1..10 : Digits[d] = c) - 1

RECURSIVE IntToStr(_)
\* '{}'.format(n) of a non-negative int: its decimal digits.
IntToStr(n) ==
    IF n < 10 THEN <<Digits[n + 1]>>
    ELSE Append(IntToStr(n \div 10), Digits[(n % 10) + 1])

RECURSIVE Strip(_)
\* str.strip() as far as the texts here hold white space: the line feed.
Strip(s) ==
    IF s = <<>> THEN s
    ELSE IF Head(s) = "\n" THEN Strip(Tail(s))
    ELSE IF s[Len(s)] = "\n" THEN Strip(SubSeq(s, 1, Len(s) - 1))
    ELSE s

RECURSIVE DigitsValue(_)
DigitsValue(s) ==
    IF s = <<>> THEN 0
    ELSE 10 * DigitsValue(SubSeq(s, 1, Len(s) - 1)) + DigitValue(s[Len(s)])

\* Whether int(s) accepts s: digits, white space around them allowed.
IsInt(s) == Strip(s) # <<>> /\ \A i \in 1..Len(Strip(s)) : IsDigit(Strip(s)[i])

\* int(s) of an accepted s.
int(s) == DigitsValue(Strip(s))

\* Line 74: '{0},{1}\n'.format(a, b)
FormatPair(a, b) == a \o <<",">> \o IntToStr(b) \o <<"\n">>

RECURSIVE write_pairs_csv(_)
\* write_pairs_csv: the text of the file written for items.
write_pairs_csv(its) ==
    IF its = <<>> THEN <<>>
    ELSE FormatPair(its[1][1], its[1][2]) \o write_pairs_csv(Tail(its))

\* csv.reader's parser (dialect excel: delimiter ',', quotechar '"',
\* doublequote, not strict).  EOL is the end-of-line mark the reader feeds
\* after the characters of every line.
EOL == "EOL"

CsvStart == [state |-> "START_RECORD", field |-> <<>>, fields |-> <<>>,
             out |-> <<>>, err |-> ""]

SaveField(p) == [p EXCEPT !.fields = Append(@, p.field), !.field = <<>>]

AddChar(p, c) == [p EXCEPT !.field = Append(@, c)]

AfterLineEnd(c) == IF c = EOL THEN "START_RECORD" ELSE "EAT_CRNL"

StartField(p, c) ==
    IF c \in {"\n", "\r", EOL}
      THEN [SaveField(p) EXCEPT !.state = AfterLineEnd(c)]
    ELSE IF c = "\"" THEN [p EXCEPT !.state = "IN_QUOTED_FIELD"]
    ELSE IF c = "," THEN [SaveField(p) EXCEPT !.state = "START_FIELD"]
    ELSE [AddChar(p, c) EXCEPT !.state = "IN_FIELD"]

\* parse_process_char
ProcessChar(p, c) ==
    CASE p.state = "START_RECORD" ->
            IF c = EOL THEN p
            ELSE IF c \in {"\n", "\r"} THEN [p EXCEPT !.state = "EAT_CRNL"]
            ELSE StartField(p, c)
      [] p.state = "START_FIELD" -> StartField(p, c)
      [] p.state = "IN_FIELD" ->
            IF c \in {"\n", "\r", EOL}
              THEN [SaveField(p) EXCEPT !.state = AfterLineEnd(c)]
            ELSE IF c = "," THEN [SaveField(p) EXCEPT !.state = "START_FIELD"]
            ELSE AddChar(p, c)
      [] p.state = "IN_QUOTED_FIELD" ->
            IF c = EOL THEN p
            ELSE IF c = "\"" THEN [p EXCEPT !.state = "QUOTE_IN_QUOTED_FIELD"]
            ELSE AddChar(p, c)
      [] p.state = "QUOTE_IN_QUOTED_FIELD" ->
            IF c = "\"" THEN [AddChar(p, c) EXCEPT !.state = "IN_QUOTED_FIELD"]
            ELSE IF c = "," THEN [SaveField(p) EXCEPT !.state = "START_FIELD"]
            ELSE IF c \in {"\n", "\r", EOL}
              THEN [SaveField(p) EXCEPT !.state = AfterLineEnd(c)]
            ELSE [AddChar(p, c) EXCEPT !.state = "IN_FIELD"]
      [] p.state = "EAT_CRNL" ->
            IF c \in {"\n", "\r"} THEN p
            ELSE IF c = EOL THEN [p EXCEPT !.state = "START_RECORD"]
            ELSE [p EXCEPT !.err = "csv.Error"]

\* The reader returns the record once a line ends in START_RECORD.
EmitRecord(p) ==
    IF p.state = "START_RECORD" /\ p.err = ""
      THEN [p EXCEPT !.out = Append(@, p.fields), !.fields = <<>>, !.field = <<>>]
      ELSE p

RECURSIVE CsvRun(_, _, _)
\* The reader over the lines of the file: text from its i-th character on.
\* A line ends with its line feed or with the text.
CsvRun(text, i, p) ==
    IF p.err # "" THEN p
    ELSE IF i > Len(text)
      THEN IF p.state # "START_RECORD"
                /\ (p.field # <<>> \/ p.state = "IN_QUOTED_FIELD")
             THEN LET q == SaveField(p)
                  IN [q EXCEPT !.out = Append(@, q.fields), !.fields = <<>>]
             ELSE p
    ELSE LET q == ProcessChar(p, text[i])
             lineEnds == text[i] = "\n" \/ i = Len(text)
         IN CsvRun(text, i + 1,
                   IF lineEnds /\ q.err = "" THEN EmitRecord(ProcessChar(q, EOL))
                   ELSE q)

RECURSIVE PairsOfRows(_, _, _)
\* read_pairs_csv, lines 81-84, over the records the reader yields: the pairs,
\* or the exception of the first record that has no two fields or no int.
PairsOfRows(rs, parseErr, acc) ==
    IF rs = <<>> THEN [err |-> parseErr, pairs |-> IF parseErr = "" THEN acc ELSE <<>>]
    ELSE LET row == Head(rs)
         IN IF Len(row) < 2 THEN [err |-> "IndexError", pairs |-> <<>>]
            ELSE IF ~IsInt(row[2]) THEN [err |-> "ValueError", pairs |-> <<>>]
            ELSE PairsOfRows(Tail(rs), parseErr,
                             Append(acc, <<row[1], int(row[2])>>))

\* read_pairs_csv of a file holding text.
read_pairs_csv(text) ==
    LET p == CsvRun(text, 1, CsvStart)
    IN PairsOfRows(p.out, p.err, <<>>)

\* The characters of the tokens written to the file.
TokenChars == {"a", "1", ",", "\"", "\n"}

Tokens == SeqsOf(TokenChars, 0, MaxTokenLen)

\* The counts written to the file: positive, of one digit and of two.
PairCounts == {1, 2, 10}

\* write_pairs_csv(filename, items)
WritePairsCsvCall ==
    /\ pc = "write_pairs_csv"
    /\ file' = write_pairs_csv(items)
    /\ pc' = "read_pairs_csv"
    /\ UNCHANGED <<ret, error, table, read_cached, steps, hex_id_count, count,
                   duplicates, items, pairs, hex_ids, batch_size, batch_no,
                   queries, colnames, rows, fixerVars>>

\* read_pairs_csv(filename) of the file just written
ReadPairsCsvCall ==
    /\ pc = "read_pairs_csv"
    /\ LET r == read_pairs_csv(file)
       IN /\ pairs' = r.pairs
          /\ error' = r.err
    /\ pc' = "exit"
    /\ UNCHANGED <<ret, table, read_cached, steps, hex_id_count, count,
                   duplicates, items, file, hex_ids, batch_size, batch_no,
                   queries, colnames, rows, fixerVars>>

InitCsv ==
    /\ pc = "write_pairs_csv" /\ ret = "exit" /\ error = ""
    /\ items \in SeqsOf(Tokens \X PairCounts, 0, MaxItems)
    /\ table = <<>> /\ read_cached = FALSE /\ steps = <<>>
    /\ hex_id_count = EmptyDict /\ count = 0
    /\ duplicates = <<>> /\ file = <<>> /\ pairs = <<>>
    /\ hex_ids = <<>> /\ batch_size = 1 /\ batch_no = 0 /\ queries = <<>>
    /\ colnames = <<>> /\ rows = <<>>
    /\ FixerIdle

NextCsv == WritePairsCsvCall \/ ReadPairsCsvCall

SpecCsv == InitCsv /\ [][NextCsv]_vars

\* C6: read_pairs_csv of the file write_pairs_csv wrote returns the pairs
\* written, in their order, the count an integer and the token unchanged.
C6_ReadInvertsWrite ==
    pc = "exit" /\ ret = "exit" /\ file = write_pairs_csv(items) =>
        error = "" /\ pairs = items

----------------------------------------------------------------------------
(* duplicate_finder.py: get_rows_by_hex_id                                 *)

\* The column names of national_dataset (cursor.description).
TableColumns == <<"hex_id", "evi", "geom">>

\* Optional values: None, and a value that is set.
None == <<>>
Some(x) == <<x>>

EmptyColnames == Some(<<>>)

\* Line 91: colnames = None
InitialColnames == None

Min(a, b) == IF a < b THEN a ELSE b

\* The number of batches itertools.batched(ids, n) yields.
NumBatches(ids, n) == (Len(ids) + n - 1) \div n

\* The k-th batch (k from 1) of itertools.batched(ids, n).
Batch(ids, n, k) == SubSeq(ids, (k - 1) * n + 1, Min(k * n, Len(ids)))

RECURSIVE Join(_, _)
\* sep.join(strs)
Join(sep, strs) ==
    IF strs = <<>> THEN <<>>
    ELSE IF Len(strs) = 1 THEN strs[1]
    ELSE strs[1] \o sep \o Join(sep, Tail(strs))

\* Line 101: '\'' + '\',\''.join(batch) + '\''
BatchIds(batch) == <<"'">> \o Join(<<"'", ",", "'">>, batch) \o <<"'">>

RECURSIVE SqlList(_, _, _, _, _)
\* The database's reading of the text between the parentheses of
\* `hex_id IN (...)`: string literals in single quotes, a doubled quote
\* standing for one quote inside a literal, separated by commas.  Any other
\* text is refused.
SqlList(text, i, state, cur, vals) ==
    IF i > Len(text)
      THEN [ok |-> state = "AFTER_LITERAL", values |-> vals]
    ELSE LET c == text[i]
         IN CASE state = "EXPECT_LITERAL" ->
                    IF c = "'" THEN SqlList(text, i + 1, "IN_LITERAL", <<>>, vals)
                    ELSE [ok |-> FALSE, values |-> vals]
              [] state = "IN_LITERAL" ->
                    IF c # "'"
                      THEN SqlList(text, i + 1, "IN_LITERAL", Append(cur, c), vals)
                    ELSE IF i < Len(text) /\ text[i + 1] = "'"
                      THEN SqlList(text, i + 2, "IN_LITERAL", Append(cur, "'"), vals)
                    ELSE SqlList(text, i + 1, "AFTER_LITERAL", <<>>, Append(vals, cur))
              [] state = "AFTER_LITERAL" ->
                    IF c = "," THEN SqlList(text, i + 1, "EXPECT_LITERAL", <<>>, vals)
                    ELSE [ok |-> FALSE, values |-> vals]

ParseInList(text) == SqlList(text, 1, "EXPECT_LITERAL", <<>>, <<>>)

\* The rows `SELECT * FROM national_dataset WHERE hex_id IN (values)` yields.
SelectIn(values) == SelectSeq(table, LAMBDA r : r.hex_id \in Range(values))

\* get_rows_by_hex_id, lines 90-97.
GetRowsEnter ==
    /\ pc = "get_rows_by_hex_id"
    /\ rows' = <<>>
    /\ colnames' = InitialColnames
    /\ batch_no' = 0
    /\ queries' = <<>>
    /\ pc' = "get_rows_loop"
    /\ UNCHANGED <<ret, error, table, read_cached, steps, hex_id_count, count,
                   duplicates, items, file, pairs, hex_ids, batch_size,
                   fixerVars>>

\* get_rows_by_hex_id, lines 99-112: one batch, its query and its rows.  A
\* query the database refuses raises, and the exception leaves the function.
GetRowsBatch ==
    /\ pc = "get_rows_loop"
    /\ batch_no < NumBatches(hex_ids, batch_size)
    /\ LET batch == Batch(hex_ids, batch_size, batch_no + 1)
           batch_ids == BatchIds(batch)
           parsed == ParseInList(batch_ids)
       IN /\ queries' = Append(queries, [batch |-> batch, in_list |-> batch_ids])
          /\ IF parsed.ok
               THEN /\ colnames' = IF colnames = None THEN Some(TableColumns)
                                   ELSE colnames
                    /\ rows' = rows \o SelectIn(parsed.values)
                    /\ UNCHANGED <<pc, error>>
               ELSE /\ error' = "SyntaxError"
                    /\ pc' = "failed"
                    /\ UNCHANGED <<colnames, rows>>
    /\ batch_no' = batch_no + 1
    /\ UNCHANGED <<ret, table, read_cached, steps, hex_id_count, count,
                   duplicates, items, file, pairs, hex_ids, batch_size,
                   fixerVars>>

\* get_rows_by_hex_id, line 118.
GetRowsReturn ==
    /\ pc = "get_rows_loop"
    /\ batch_no = NumBatches(hex_ids, batch_size)
    /\ pc' = ret
    /\ UNCHANGED <<ret, error, finderVars, fixerVars>>

\* The hex ids of the fetched datasets and of the requested lists: plain
\* ones, and ones that hold a quote or the list separator.
FetchIds == {<<"a">>, <<"b">>, <<"a", "'">>, <<"'", "'">>,
             <<"a", "'", ",", "'", "b">>}

FetchTables ==
    UNION {{[i \in 1..n |-> TableRow(i, h[i], "wkb")] : h \in [1..n -> FetchIds]} :
            n \in 0..MaxTable}

InitFetch ==
    /\ pc = "get_rows_by_hex_id" /\ ret = "exit" /\ error = ""
    /\ table \in FetchTables
    /\ hex_ids \in SeqsOf(FetchIds, 0, MaxIds)
    /\ batch_size \in 1..MaxBatch
    /\ read_cached = FALSE /\ steps = <<>>
    /\ hex_id_count = EmptyDict /\ count = 0
    /\ duplicates = <<>> /\ items = <<>> /\ file = <<>> /\ pairs = <<>>
    /\ batch_no = 0 /\ queries = <<>> /\ colnames = None /\ rows = <<>>
    /\ FixerIdle

NextFetch == GetRowsEnter \/ GetRowsBatch \/ GetRowsReturn

SpecFetch == InitFetch /\ [][NextFetch]_vars

----------------------------------------------------------------------------
(* Claims about get_rows_by_hex_id. *)

\* How often row r stands in the sequence rs.
TimesIn(r, rs) == Cardinality({i \in 1..Len(rs) : rs[i] = r})

\* C7: whatever the id list and the batch size, get_rows_by_hex_id returns
\* the rows of the table whose hex_id is in the list, each of them once and
\* no other row.
C7_FetchReturnsExactlyRequestedRows ==
    pc \in {"exit", "failed"} =>
        /\ error = ""
        /\ \A i \in 1..Len(table) :
              TimesIn(table[i], rows)
                  = IF table[i].hex_id \in Range(hex_ids) THEN 1 ELSE 0
        /\ Range(rows) \subseteq Range(table)

\* C8: every query matches against exactly the ids of its batch, one literal
\* per id, whatever characters an id holds.
C8_IdsAreOpaqueLiterals ==
    \A q \in 1..Len(queries) :
        LET parsed == ParseInList(queries[q].in_list)
        IN /\ parsed.ok
           /\ Len(parsed.values) = Len(queries[q].batch)
           /\ Range(parsed.values) = Range(queries[q].batch)

----------------------------------------------------------------------------
(* duplicate_finder.py: main                                               *)

\* shapely.from_wkb accepts a well-formed payload only.
IsWkb(g) == g = "wkb"

\* Lines 124-130: the connection; a failure logs and exits with status 1.
MainConnect ==
    /\ pc = "main"
    /\ \E connected \in BOOLEAN :
          IF connected
            THEN pc' = "main_duplicates" /\ UNCHANGED error
            ELSE pc' = "failed" /\ error' = "SystemExit"
    /\ UNCHANGED <<ret, finderVars, fixerVars>>

\* Lines 134-137: the cached duplicates are read from duplicate_hex_ids.csv.
MainReadCached ==
    /\ pc = "main_duplicates"
    /\ read_cached
    /\ LET r == read_pairs_csv(file)
       IN IF r.err = ""
            THEN /\ duplicates' = r.pairs
                 /\ steps' = Append(steps, "read_cached")
                 /\ pc' = "main_fetch"
                 /\ UNCHANGED error
            ELSE /\ error' = r.err
                 /\ pc' = "failed"
                 /\ UNCHANGED <<duplicates, steps>>
    /\ UNCHANGED <<ret, table, read_cached, hex_id_count, count, items, file,
                   pairs, hex_ids, batch_size, batch_no, queries, colnames,
                   rows, fixerVars>>

\* Lines 138-142: without the flag, the scan of the table.
MainGetHexIds ==
    /\ pc = "main_duplicates"
    /\ ~read_cached
    /\ steps' = Append(steps, "scan")
    /\ pc' = "get_hex_ids"
    /\ ret' = "main_write_all"
    /\ UNCHANGED <<error, table, read_cached, hex_id_count, count, duplicates,
                   items, file, pairs, hex_ids, batch_size, batch_no, queries,
                   colnames, rows, fixerVars>>

\* Line 146: write_pairs_csv(hex_id_count.items()) passes one argument to a
\* function of two (filename, items): the call raises TypeError, and lines
\* 147-157 (find_duplicates and the write of duplicate_hex_ids.csv) are not
\* reached.
MainWriteAll ==
    /\ pc = "main_write_all"
    /\ error' = "TypeError"
    /\ pc' = "failed"
    /\ UNCHANGED <<ret, finderVars, fixerVars>>

\* Lines 160-162: the ids of the duplicates and the call of
\* get_rows_by_hex_id.
MainFetch ==
    /\ pc = "main_fetch"
    /\ steps' = Append(steps, "fetch")
    /\ hex_ids' = [i \in 1..Len(duplicates) |-> duplicates[i][1]]
    /\ pc' = "get_rows_by_hex_id"
    /\ ret' = "main_geoms"
    /\ UNCHANGED <<error, table, read_cached, hex_id_count, count, duplicates,
                   items, file, pairs, batch_size, batch_no, queries, colnames,
                   rows, fixerVars>>

\* Lines 165-167: column_names.index('geom') and the decoding of every row's
\* geometry.
MainDecode ==
    /\ pc = "main_geoms"
    /\ IF colnames = None
         THEN error' = "AttributeError" /\ pc' = "failed" /\ UNCHANGED steps
       ELSE IF "geom" \notin Range(colnames[1])
         THEN error' = "ValueError" /\ pc' = "failed" /\ UNCHANGED steps
       ELSE IF \E i \in 1..Len(rows) : ~IsWkb(rows[i].geom)
         THEN error' = "GEOSException" /\ pc' = "failed" /\ UNCHANGED steps
       ELSE /\ steps' = Append(steps, "decode")
            /\ pc' = "main_gdf"
            /\ UNCHANGED error
    /\ UNCHANGED <<ret, table, read_cached, hex_id_count, count, duplicates,
                   items, file, pairs, hex_ids, batch_size, batch_no, queries,
                   colnames, rows, fixerVars>>

\* Lines 170-178: the GeoDataFrame and its write to duplicates.gpkg.
MainHandOff ==
    /\ pc = "main_gdf"
    /\ steps' = Append(steps, "handoff")
    /\ pc' = "exit"
    /\ UNCHANGED <<ret, error, table, read_cached, hex_id_count, count,
                   duplicates, items, file, pairs, hex_ids, batch_size,
                   batch_no, queries, colnames, rows, fixerVars>>

\* The hex ids of main's datasets and cached files.
MainIds == {<<"a">>, <<"b">>, <<"a", "'">>}

MainTables ==
    UNION {{[i \in 1..n |-> TableRow(i, h[i], g[i])] :
                h \in [1..n -> MainIds], g \in [1..n -> {"wkb", "bad"}]} :
            n \in 0..MaxMainTable}

\* The texts duplicate_hex_ids.csv holds when main starts: what an earlier
\* run wrote, or a line without a count.
MainFiles ==
    {write_pairs_csv(its) : its \in SeqsOf(MainIds \X {2}, 0, MaxCached)}
        \cup {<<"a", "\n">>}

Init ==
    /\ pc = "main" /\ ret = "exit" /\ error = ""
    /\ table \in MainTables
    /\ read_cached \in BOOLEAN
    /\ file \in MainFiles
    /\ batch_size \in 1..MaxBatch
    /\ steps = <<>>
    /\ hex_id_count = EmptyDict /\ count = 0
    /\ duplicates = <<>> /\ items = <<>> /\ pairs = <<>>
    /\ hex_ids = <<>> /\ batch_no = 0 /\ queries = <<>>
    /\ colnames = None /\ rows = <<>>
    /\ FixerIdle

Next ==
    \/ MainConnect
    \/ MainReadCached
    \/ MainGetHexIds
    \/ GetHexIdsEnter
    \/ GetHexIdsLoop
    \/ GetHexIdsReturn
    \/ MainWriteAll
    \/ MainFetch
    \/ GetRowsEnter
    \/ GetRowsBatch
    \/ GetRowsReturn
    \/ MainDecode
    \/ MainHandOff

Spec == Init /\ [][Next]_vars

----------------------------------------------------------------------------
(* Claims about main. *)

MainEnded == pc \in {"exit", "failed"}

\* C9: a run without the flag whose connection succeeded ends with the
\* hand-off, having passed the scan, the building of the duplicate set, the
\* write of the duplicate-id file, the fetch and the decoding in this order;
\* and no query is issued before the duplicate-id file is written.
C9_DetectionRunReachesHandOff ==
    /\ (~read_cached /\ MainEnded /\ error # "SystemExit") =>
          /\ pc = "exit"
          /\ steps = <<"scan", "build", "persist", "fetch", "decode", "handoff">>
    /\ (~read_cached /\ queries # <<>>) => "persist" \in Range(steps)

FetchedNothingRequested == "fetch" \in Range(steps) /\ hex_ids = <<>>

\* C10: when main asks get_rows_by_hex_id for no id, no query is executed,
\* the rows stay empty and the column names None, and main ends with the
\* error of its look-up of 'geom', never with the hand-off.
C10_EmptyIdListEndsInError ==
    FetchedNothingRequested =>
        /\ queries = <<>>
        /\ rows = <<>>
        /\ colnames = None
        /\ pc \notin {"main_gdf", "exit"}
        /\ "handoff" \notin Range(steps)
        /\ MainEnded => (pc = "failed" /\ error = "AttributeError")

\* C10 witness: a run on an empty cached file that ended with the error.
C10_Witness ==
    /\ FetchedNothingRequested
    /\ read_cached /\ file = <<>> /\ Len(table) > 0
    /\ pc = "failed" /\ error = "AttributeError"
    /\ colnames = None /\ rows = <<>> /\ queries = <<>>

====
